---- MODULE Spec2Model ----
(***************************************************************************)
(* A model of src/report.py: the monthly category-sales loader             *)
(* (load_and_clean), the merge of the four monthly tables (merged_df) and  *)
(* the dashboard's filters and profit-margin metrics.                      *)
(*                                                                         *)
(* Text is a sequence of one-character strings, so that the string         *)
(* operations of the source (strip, contains, replace, float) are computed *)
(* character by character.  A float is a record: NaN, or a finite number.  *)
(* Three specifications share the variables:                               *)
(*   SpecClean  the numeric cleaning of one measure cell (line 24)         *)
(*   SpecLoad   one call of load_and_clean on one file (lines 9-31)        *)
(*   Spec       the whole script, run after run (lines 34-107)             *)
(***************************************************************************)
EXTENDS Integers, Sequences, FiniteSets, TLC

\* ------------------------------------------------------------- bounds
\* longest cell text SpecClean enumerates
MaxLen == 3
\* commas/spaces SpecClean may add to a text
MaxNoise == 2
\* most rows of a file SpecLoad enumerates
MaxRows == 2
\* script runs (the first run and the reruns) of one process that Spec follows
MaxRuns == 4

\* ------------------------------------------------------------- text
UpperAlphabet == <<"A","B","C","D","E","F","G","H","I","J","K","L","M",
                   "N","O","P","Q","R","S","T","U","V","W","X","Y","Z">>
LowerAlphabet == <<"a","b","c","d","e","f","g","h","i","j","k","l","m",
                   "n","o","p","q","r","s","t","u","v","w","x","y","z">>
Digits == <<"0","1","2","3","4","5","6","7","8","9">>

\* the characters of the model's texts in code-point order (sorted() compares by it)
CodePoints == <<" ", "+", ",", "-", ".", "/">> \o Digits \o UpperAlphabet \o LowerAlphabet

Ord(c) == CHOOSE i \in 1..Len(CodePoints) : CodePoints[i] = c

\* str.lower / re.IGNORECASE folding of one character
LowerChar(c) ==
    IF \E i \in 1..26 : UpperAlphabet[i] = c
    THEN LowerAlphabet[CHOOSE i \in 1..26 : UpperAlphabet[i] = c]
    ELSE c

IsSpace(c) == c = " "

\* str.lstrip / str.rstrip / str.strip with no argument: whitespace at the ends
RECURSIVE LStrip(_)
LStrip(s) == IF s # <<>> /\ IsSpace(Head(s)) THEN LStrip(Tail(s)) ELSE s

RECURSIVE RStrip(_)
RStrip(s) ==
    IF s # <<>> /\ IsSpace(s[Len(s)]) THEN RStrip(SubSeq(s, 1, Len(s) - 1)) ELSE s

StrStrip(s) == RStrip(LStrip(s))

\* whether pat occurs in s at offset k (0-based), compared as is or case-folded
MatchAt(s, pat, k, case) ==
    \A j \in 1..Len(pat) :
        IF case THEN s[k + j] = pat[j]
        ELSE LowerChar(s[k + j]) = LowerChar(pat[j])

\* a contains that ignores case=False and compares the characters as they are
StrContainsCS(s, pat, case) ==
    \E k \in 0..(Len(s) - Len(pat)) : MatchAt(s, pat, k, TRUE)

\* Series.str.contains(pat, case=case) for a pattern of plain letters

StrContains(s, pat, case) ==
    \E k \in 0..(Len(s) - Len(pat)) : MatchAt(s, pat, k, case)

\* what a replace that stops after the first occurrence would do
RECURSIVE StrReplaceFirst(_, _)
StrReplaceFirst(s, ch) ==
    IF s = <<>> THEN <<>>
    ELSE IF Head(s) = ch THEN Tail(s)
    ELSE <<Head(s)>> \o StrReplaceFirst(Tail(s), ch)

\* Series.str.replace(ch, "") for a one-character ch: every occurrence goes
RECURSIVE StrReplace(_, _)
StrReplace(s, ch) ==
    IF s = <<>> THEN <<>>
    ELSE IF Head(s) = ch THEN StrReplace(Tail(s), ch)
    ELSE <<Head(s)>> \o StrReplace(Tail(s), ch)

\* ------------------------------------------------------------- floats
\* a float64: NaN or a finite number (the model's numbers are whole)
NaN == [nan |-> TRUE, v |-> 0]
Num(n) == [nan |-> FALSE, v |-> n]
IsFinite(f) == ~f.nan

DigitVal(c) == (CHOOSE i \in 1..10 : Digits[i] = c) - 1
IsDigit(c) == \E i \in 1..10 : Digits[i] = c

RECURSIVE DigitsVal(_)
DigitsVal(s) ==
    IF s = <<>> THEN 0
    ELSE 10 * DigitsVal(SubSeq(s, 1, Len(s) - 1)) + DigitVal(s[Len(s)])

RECURSIVE IntDigits(_)
IntDigits(n) ==
    IF n < 10 THEN <<Digits[n + 1]>>
    ELSE IntDigits(n \div 10) \o <<Digits[(n % 10) + 1]>>

\* str(n) of a Python int
IntStr(n) == IF n < 0 THEN <<"-">> \o IntDigits(-n) ELSE IntDigits(n)

\* the unsigned decimal forms the model's texts can take: digits, then
\* optionally a point and zeros ("12", "12.", "12.0"); no text of the model
\* carries a fraction other than zero
IsUnsignedDecimal(s) ==
    \E p \in 1..Len(s) :
        /\ \A i \in 1..p : IsDigit(s[i])
        /\ \/ p = Len(s)
           \/ /\ s[p + 1] = "."
              /\ \A i \in (p + 2)..Len(s) : s[i] = "0"

UnsignedVal(s) ==
    LET p == CHOOSE p \in 1..Len(s) :
                 /\ \A i \in 1..p : IsDigit(s[i])
                 /\ (p = Len(s) \/ s[p + 1] = ".")
    IN  DigitsVal(SubSeq(s, 1, p))

FoldText(s) == [i \in 1..Len(s) |-> LowerChar(s[i])]

\* float(text): the value, or ok = FALSE where Python raises ValueError.
\* Leading and trailing whitespace is ignored, one sign is allowed, and
\* "nan" in any casing is the NaN.
ParseFloat(text) ==
    LET s    == StrStrip(text)
        sgn  == s # <<>> /\ Head(s) \in {"+", "-"}
        body == IF sgn THEN Tail(s) ELSE s
    IN  IF FoldText(body) = <<"n", "a", "n">>
        THEN [ok |-> TRUE, val |-> NaN]
        ELSE IF body # <<>> /\ IsUnsignedDecimal(body)
        THEN [ok |-> TRUE,
              val |-> Num(IF sgn /\ Head(s) = "-" THEN -UnsignedVal(body)
                          ELSE UnsignedVal(body))]
        ELSE [ok |-> FALSE, val |-> NaN]

\* line 24 on one cell's text: .str.replace(",", "").str.replace(" ", "").astype(float)
CleanNumericFirstOnly(text) ==
    ParseFloat(StrReplaceFirst(StrReplaceFirst(text, ","), " "))

CleanNumeric(text) == ParseFloat(StrReplace(StrReplace(text, ","), " "))

\* ------------------------------------------------------------- tables
\* line 20-21
numeric_cols == <<"Total Sales", "Total Profit", "Total Cost Excise", "Discount",
                  "Gross Sales", "VAT", "Net Sales (incl. VAT)">>

Measures == {numeric_cols[i] : i \in 1..Len(numeric_cols)}

AllColumns == {"Category", "Unnamed: 1"} \cup Measures

\* a spreadsheet cell as read_excel delivers it: empty (NaN), text, or a whole number
Empty == [k |-> "empty", s |-> <<>>, n |-> 0]
Txt(s) == [k |-> "text", s |-> s, n |-> 0]
Int64(n) == [k |-> "num", s |-> <<>>, n |-> n]

\* the cell of column col in raw row r
CellOf(r, col) ==
    IF col = "Category" THEN r.Category
    ELSE IF col = "Unnamed: 1" THEN r.Unnamed1
    ELSE r.m[col]

\* the dtype read_excel infers for a column: whole numbers give int64, whole
\* numbers with empty cells float64, anything with text object
ColDtype(rows, col) ==
    LET cells == {CellOf(rows[i], col) : i \in 1..Len(rows)}
    IN  IF cells # {} /\ \A c \in cells : c.k = "num" THEN "int64"
        ELSE IF cells # {} /\ \A c \in cells : c.k \in {"num", "empty"} THEN "float64"
        ELSE "object"

\* Series.astype(str) on one cell of a column of the given dtype
AsTypeStr(c, dtype) ==
    IF c.k = "empty" THEN <<"n", "a", "n">>
    ELSE IF c.k = "text" THEN c.s
    ELSE IF dtype = "float64" THEN IntStr(c.n) \o <<".", "0">>
    ELSE IntStr(c.n)

T_Total == <<"T", "o", "t", "a", "l">>
T_Slash == <<" ", "/", " ">>

\* a total-row test that wants the whole label to be "total"
IsTotalRowExact(category) == FoldText(category) = FoldText(T_Total)

\* line 17: the rows df[~df["Category"].str.contains("Total", case=False, na=False)] drops
IsTotalRow(category) == StrContains(category, T_Total, FALSE)

\* a loop over numeric_cols without the test "if col in df.columns": the
\* lookup of a column the file has not got raises
MeasureValueNoGuard(file, r, col) ==
    IF col \in file.cols
    THEN CleanNumeric(AsTypeStr(r.m[col], ColDtype(file.rows, col)))
    ELSE [ok |-> FALSE, val |-> NaN]

\* lines 22-26 for one surviving row and one measure: the parse of the
\* column's cell if the file has the column, and 0.0 if it has not
MeasureValue(file, r, col) ==
    IF col \in file.cols
    THEN CleanNumeric(AsTypeStr(r.m[col], ColDtype(file.rows, col)))
    ELSE [ok |-> TRUE, val |-> Num(0)]

\* lines 13-14, 29-30 for one surviving row: the Normalized Record
NormalizedRow(file, r, month_name) ==
    LET cat == StrStrip(AsTypeStr(r.Category, ColDtype(file.rows, "Category")))
        sub == StrStrip(AsTypeStr(r.Unnamed1, ColDtype(file.rows, "Unnamed: 1")))
    IN  [Category      |-> cat,
         Unnamed1      |-> sub,
         m             |-> [col \in Measures |-> MeasureValue(file, r, col).val],
         Category_Full |-> cat \o T_Slash \o sub,
         Month         |-> month_name]

Raised(e) == [state |-> "raised", err |-> e, rows |-> <<>>]
Returned(rows) == [state |-> "returned", err |-> "", rows |-> rows]
NotCalled == [state |-> "none", err |-> "", rows |-> <<>>]

\* lines 9-31
load_and_clean(file, month_name) ==
    IF ~file.exists THEN Raised("FileNotFoundError")
    ELSE IF "Category" \notin file.cols \/ "Unnamed: 1" \notin file.cols
    THEN Raised("KeyError")
    ELSE
      LET Keep(r) ==
              ~IsTotalRow(StrStrip(AsTypeStr(r.Category,
                                             ColDtype(file.rows, "Category"))))
          kept == SelectSeq(file.rows, Keep)
      IN  IF \E i \in 1..Len(kept), col \in Measures :
                 ~MeasureValue(file, kept[i], col).ok
          THEN Raised("ValueError")
          ELSE Returned([i \in 1..Len(kept) |->
                            NormalizedRow(file, kept[i], month_name)])

\* ------------------------------------------------------------- inputs
T_Bev == <<" ", "B", "e", "v">>
T_Snk == <<"S", "n", "k">>
T_TotalBev == <<"T", "o", "t", "a", "l", " ", "B", "e", "v">>
T_TOTAL == <<"T", "O", "T", "A", "L">>
T_total == <<" ", "t", "o", "t", "a", "l", " ">>
T_ToTaL == <<"S", "u", "b", "T", "o", "T", "a", "L">>
T_Soda == <<"S", "o", "d", "a", " ">>
T_Tea == <<"T", "e", "a">>
T_Sample == <<"1", ",", "2", "3", "4", " ", "5", "6", "7">>
T_Small == <<"1", ",", "2", " ", "0", "0">>
T_Bad == <<"1", "x">>
T_5 == <<" ", "5">>

\* a raw row; the four measures the dashboard never reads hold whole numbers
RawRow(cat, sub, sales, profit, discount) ==
    [Category |-> cat,
     Unnamed1 |-> sub,
     m |-> [col \in Measures |->
               CASE col = "Total Sales" -> sales
                 [] col = "Total Profit" -> profit
                 [] col = "Discount" -> discount
                 [] OTHER -> Int64(1)]]

RowCatalog ==
    { RawRow(Txt(T_Bev), Txt(T_Soda), Txt(T_Sample), Int64(50), Txt(T_5)),
      RawRow(Txt(T_Snk), Txt(T_Tea), Int64(0), Int64(50), Empty),
      RawRow(Empty, Empty, Int64(10), Int64(-2), Int64(3)),
      RawRow(Txt(T_Snk), Txt(T_Soda), Txt(T_Bad), Int64(1), Int64(0)),
      RawRow(Txt(T_TotalBev), Empty, Txt(T_Bad), Empty, Txt(T_Sample)),
      RawRow(Txt(T_TOTAL), Txt(T_Tea), Int64(7), Int64(7), Int64(7)),
      RawRow(Txt(T_total), Empty, Empty, Empty, Empty),
      RawRow(Txt(T_ToTaL), Txt(T_Soda), Int64(2), Int64(1), Txt(T_Bad)) }

ColumnSets ==
    { AllColumns,
      AllColumns \ {"Discount"},
      {"Category", "Unnamed: 1", "Total Sales", "Total Profit"},
      AllColumns \ {"Category"},
      AllColumns \ {"Unnamed: 1"} }

\* a file holds Empty in the columns it has not got
Project(r, cols) ==
    [Category |-> IF "Category" \in cols THEN r.Category ELSE Empty,
     Unnamed1 |-> IF "Unnamed: 1" \in cols THEN r.Unnamed1 ELSE Empty,
     m |-> [col \in Measures |-> IF col \in cols THEN r.m[col] ELSE Empty]]

File(cols, rows) ==
    [exists |-> TRUE, cols |-> cols,
     rows |-> [i \in 1..Len(rows) |-> Project(rows[i], cols)]]

MissingFile == [exists |-> FALSE, cols |-> {}, rows |-> <<>>]

SeqsUpTo(S, n) == UNION {[1..k -> S] : k \in 0..n}

LoadFiles ==
    {MissingFile} \cup
    {File(cols, rows) : cols \in ColumnSets, rows \in SeqsUpTo(RowCatalog, MaxRows)}

\* line 34-39
T_JUN == <<"J", "U", "N">>
T_JUL == <<"J", "U", "L">>
T_AUG == <<"A", "U", "G">>
T_SEP == <<"S", "E", "P">>
files_months == <<T_JUN, T_JUL, T_AUG, T_SEP>>

CleanAlphabet == {"1", "2", ",", " ", "x"}
Noise == {",", " "}
CleanTexts == SeqsUpTo(CleanAlphabet, MaxLen) \cup {T_Sample}

\* ------------------------------------------------------------- dashboard
T_All == <<"A", "l", "l">>

\* str < str of Python: by code point, a proper prefix first
TextLess(a, b) ==
    \E k \in 1..(Len(a) + 1) :
        /\ k <= Len(b)
        /\ \A i \in 1..(k - 1) : a[i] = b[i]
        /\ (k = Len(a) + 1 \/ Ord(a[k]) < Ord(b[k]))

\* sorted(...) of a set of distinct texts
RECURSIVE Sorted(_)
Sorted(S) ==
    IF S = {} THEN <<>>
    ELSE LET lo == CHOOSE x \in S : \A y \in S \ {x} : TextLess(x, y)
         IN  <<lo>> \o Sorted(S \ {lo})

Range(q) == {q[i] : i \in 1..Len(q)}

\* a concat that drops a row it has already seen
RECURSIVE Dedup(_)
Dedup(rows) ==
    IF rows = <<>> THEN <<>>
    ELSE LET init == SubSeq(rows, 1, Len(rows) - 1)
             last == rows[Len(rows)]
         IN  IF last \in Range(init) THEN Dedup(init) ELSE Dedup(init) \o <<last>>

RECURSIVE ConcatAll(_)
ConcatAll(tables) ==
    IF tables = <<>> THEN <<>> ELSE Head(tables) \o ConcatAll(Tail(tables))

ConcatDedup(tables) == Dedup(ConcatAll(tables))

\* line 42: pd.concat(dfs, ignore_index=True)
Concat(tables) == ConcatAll(tables)

Undefined == [defined |-> FALSE, rows |-> <<>>]
Table(rows) == [defined |-> TRUE, rows |-> rows]

\* line 48, 52
MonthOptions(rows) == <<T_All>> \o Sorted({rows[i].Month : i \in 1..Len(rows)})
MainCategoryOptions(rows) ==
    <<T_All>> \o Sorted({rows[i].Category : i \in 1..Len(rows)})

\* lines 56-61
SubcatOptions(rows, main) ==
    IF main # T_All
    THEN <<T_All>> \o Sorted({rows[i].Unnamed1 :
                                i \in {j \in 1..Len(rows) : rows[j].Category = main}})
    ELSE <<T_All>> \o Sorted({rows[i].Unnamed1 : i \in 1..Len(rows)})

\* st.sidebar.selectbox: the value the session holds for the widget, while the
\* widget is offered the options it was built with; the first option otherwise
NoWidget == [opts |-> <<>>, val |-> <<>>]
Selectbox(w, options) == IF w.opts = options THEN w.val ELSE options[1]

\* a filter that forgets the subcategory
FilterRowsNoSub(rows, month, main, sub) ==
    LET ByMonth(r) == r.Month = month
        ByMain(r) == r.Category = main
        f1 == IF month # T_All THEN SelectSeq(rows, ByMonth) ELSE rows
    IN  IF main # T_All THEN SelectSeq(f1, ByMain) ELSE f1

\* lines 65-71
FilterRows(rows, month, main, sub) ==
    LET ByMonth(r) == r.Month = month
        ByMain(r) == r.Category = main
        BySub(r) == r.Unnamed1 = sub
        f1 == IF month # T_All THEN SelectSeq(rows, ByMonth) ELSE rows
        f2 == IF main # T_All THEN SelectSeq(f1, ByMain) ELSE f1
    IN  IF sub # T_All THEN SelectSeq(f2, BySub) ELSE f2

\* Series.sum(): the NaN are skipped, and the sum of nothing is 0.0
RECURSIVE ColumnSum(_, _)
ColumnSum(rows, col) ==
    IF rows = <<>> THEN Num(0)
    ELSE LET rest == ColumnSum(Tail(rows), col)
             x == Head(rows).m[col]
         IN  IF x.nan THEN rest ELSE Num(rest.v + x.v)

\* a margin: NaN, or the fraction num/den (den = 0: the inf or NaN of a
\* float division by zero)
NaNMargin == [nan |-> TRUE, num |-> 0, den |-> 1]
ZeroMargin == [nan |-> FALSE, num |-> 0, den |-> 1]
Quotient100(profit, sales) ==
    IF profit.nan \/ sales.nan THEN NaNMargin
    ELSE [nan |-> FALSE, num |-> profit.v * 100, den |-> sales.v]

\* the margin without the guard on the sales
ProfitMarginUnguarded(profit, sales) == Quotient100(profit, sales)

\* line 77 and line 106: (profit / sales * 100) if sales > 0 else 0
ProfitMargin(profit, sales) ==
    IF ~sales.nan /\ sales.v > 0 THEN Quotient100(profit, sales) ELSE ZeroMargin

\* the four files of a run of Spec
F_A == File(AllColumns,
            << RawRow(Txt(T_Bev), Txt(T_Soda), Txt(T_Small), Int64(50), Txt(T_5)),
               RawRow(Txt(T_TotalBev), Empty, Txt(T_Bad), Empty, Txt(T_Sample)),
               RawRow(Txt(T_Snk), Txt(T_Tea), Int64(0), Int64(50), Empty) >>)
F_B == File(AllColumns \ {"Discount"},
            << RawRow(Empty, Empty, Int64(10), Int64(-2), Int64(3)),
               RawRow(Txt(T_Bev), Txt(T_Soda), Txt(T_Small), Int64(50), Txt(T_5)),
               RawRow(Empty, Empty, Int64(10), Int64(-2), Int64(3)) >>)
F_BadCell == File(AllColumns,
            << RawRow(Txt(T_Snk), Txt(T_Soda), Txt(T_Bad), Int64(1), Int64(0)) >>)
F_NoCategory == File(AllColumns \ {"Category"},
            << RawRow(Txt(T_Bev), Txt(T_Soda), Int64(2), Int64(1), Int64(0)) >>)
F_NoSubcat == File(AllColumns \ {"Unnamed: 1"},
            << RawRow(Txt(T_Bev), Txt(T_Soda), Int64(2), Int64(1), Int64(0)) >>)
PipeFiles == {F_A, F_B, F_BadCell, F_NoCategory, F_NoSubcat, MissingFile}

VARIABLES
    \* SpecClean: a cell's text, the text with commas and spaces added or
    \* removed, and the value line 24 gives it
    orig, txt, parsed,
    \* SpecLoad: the arguments of one load_and_clean call and what it returns
    infile, month_name, ret,
    \* Spec: the four files on disk, the script's position and its globals,
    \* the session's widget values, and the runs and ingestions so far
    files, pc, exception, dfs, merged_df,
    widget, selected_month, selected_main_cat, subcats, selected_subcat,
    filtered_df, total_sales, total_profit, profit_margin, margin_col,
    runs, ingestions

cleanVars == <<orig, txt, parsed>>
loadVars == <<infile, month_name, ret>>
selVars == <<selected_month, selected_main_cat, subcats, selected_subcat>>
metricVars == <<total_sales, total_profit, profit_margin, margin_col>>
pipeVars == <<files, pc, exception, dfs, merged_df, widget, selVars,
              filtered_df, metricVars, runs, ingestions>>
vars == <<cleanVars, loadVars, pipeVars>>

NotParsed == [done |-> FALSE, ok |-> FALSE, val |-> NaN]
Parsed(r) == [done |-> TRUE, ok |-> r.ok, val |-> r.val]

\* the globals of the script before a run has assigned them
FreshGlobals ==
    /\ exception = ""
    /\ dfs = <<>>
    /\ merged_df = Undefined
    /\ selected_month = <<>>
    /\ selected_main_cat = <<>>
    /\ subcats = <<>>
    /\ selected_subcat = <<>>
    /\ filtered_df = Undefined
    /\ total_sales = Num(0)
    /\ total_profit = Num(0)
    /\ profit_margin = ZeroMargin
    /\ margin_col = <<>>

NoSession == [month |-> NoWidget, main |-> NoWidget, sub |-> NoWidget]

IdleClean == orig = <<>> /\ txt = <<>> /\ parsed = NotParsed
IdleLoad == infile = MissingFile /\ month_name = T_JUN /\ ret = NotCalled
IdlePipe ==
    /\ files = <<MissingFile, MissingFile, MissingFile, MissingFile>>
    /\ pc = "idle"
    /\ FreshGlobals
    /\ widget = NoSession
    /\ runs = 0
    /\ ingestions = 0

\* ------------------------------------------------------------- SpecClean
InitClean ==
    /\ orig \in CleanTexts
    /\ txt = orig
    /\ parsed = NotParsed
    /\ IdleLoad
    /\ IdlePipe

\* line 24 applied to the text
CleanCell ==
    /\ ~parsed.done
    /\ parsed' = Parsed(CleanNumeric(txt))
    /\ UNCHANGED <<orig, txt, loadVars, pipeVars>>

\* the same number written with one more comma or space
InsertNoise ==
    /\ ~parsed.done
    /\ Len(txt) < Len(orig) + MaxNoise
    /\ \E p \in 0..Len(txt), ch \in Noise :
           txt' = SubSeq(txt, 1, p) \o <<ch>> \o SubSeq(txt, p + 1, Len(txt))
    /\ UNCHANGED <<orig, parsed, loadVars, pipeVars>>

\* the same number written with one comma or space fewer
RemoveNoise ==
    /\ ~parsed.done
    /\ \E p \in 1..Len(txt) :
           /\ txt[p] \in Noise
           /\ txt' = SubSeq(txt, 1, p - 1) \o SubSeq(txt, p + 1, Len(txt))
    /\ UNCHANGED <<orig, parsed, loadVars, pipeVars>>

NextClean == CleanCell \/ InsertNoise \/ RemoveNoise

SpecClean == InitClean /\ [][NextClean]_vars

\* ------------------------------------------------------------- SpecLoad
InitLoad ==
    /\ infile \in LoadFiles
    /\ month_name \in {T_JUN, T_SEP}
    /\ ret = NotCalled
    /\ IdleClean
    /\ IdlePipe

\* one call load_and_clean(filepath, month_name)
CallLoad ==
    /\ ret.state = "none"
    /\ ret' = load_and_clean(infile, month_name)
    /\ UNCHANGED <<cleanVars, infile, month_name, pipeVars>>

NextLoad == CallLoad

SpecLoad == InitLoad /\ [][NextLoad]_vars

\* ------------------------------------------------------------- Spec
Init ==
    /\ files \in [1..Len(files_months) -> PipeFiles]
    /\ pc = "load"
    /\ FreshGlobals
    /\ widget = NoSession
    /\ runs = 1
    /\ ingestions = 0
    /\ IdleClean
    /\ IdleLoad

NextFile == load_and_clean(files[Len(dfs) + 1], files_months[Len(dfs) + 1])

\* line 41, one element of the comprehension: the file loads
LoadOk ==
    /\ pc = "load"
    /\ Len(dfs) < Len(files_months)
    /\ NextFile.state = "returned"
    /\ dfs' = Append(dfs, NextFile.rows)
    /\ UNCHANGED <<cleanVars, loadVars, files, pc, exception, merged_df, widget,
                   selVars, filtered_df, metricVars, runs, ingestions>>

\* a loader that goes on to the next file with no rows for the failing one
LoadSkip ==
    /\ pc = "load"
    /\ Len(dfs) < Len(files_months)
    /\ NextFile.state = "raised"
    /\ dfs' = Append(dfs, <<>>)
    /\ UNCHANGED <<cleanVars, loadVars, files, pc, exception, merged_df, widget,
                   selVars, filtered_df, metricVars, runs, ingestions>>

\* line 41, one element of the comprehension: load_and_clean raises, nothing
\* catches it, and the run of the script ends there
LoadRaise ==
    /\ pc = "load"
    /\ Len(dfs) < Len(files_months)
    /\ NextFile.state = "raised"
    /\ pc' = "failed"
    /\ exception' = NextFile.err
    /\ dfs' = <<>>
    /\ UNCHANGED <<cleanVars, loadVars, files, merged_df, widget,
                   selVars, filtered_df, metricVars, runs, ingestions>>

\* line 42
Merge ==
    /\ pc = "load"
    /\ Len(dfs) = Len(files_months)
    /\ merged_df' = Table(Concat(dfs))
    /\ ingestions' = ingestions + 1
    /\ pc' = "sidebar"
    /\ UNCHANGED <<cleanVars, loadVars, files, exception, dfs, widget,
                   selVars, filtered_df, metricVars, runs>>

\* lines 47-62: the three selectboxes
Sidebar ==
    /\ pc = "sidebar"
    /\ LET months == MonthOptions(merged_df.rows)
           main_categories == MainCategoryOptions(merged_df.rows)
           month == Selectbox(widget.month, months)
           main == Selectbox(widget.main, main_categories)
           subs == SubcatOptions(merged_df.rows, main)
           sub == Selectbox(widget.sub, subs)
       IN  /\ selected_month' = month
           /\ selected_main_cat' = main
           /\ subcats' = subs
           /\ selected_subcat' = sub
           /\ widget' = [month |-> [opts |-> months, val |-> month],
                         main |-> [opts |-> main_categories, val |-> main],
                         sub |-> [opts |-> subs, val |-> sub]]
    /\ pc' = "filter"
    /\ UNCHANGED <<cleanVars, loadVars, files, exception, dfs, merged_df,
                   filtered_df, metricVars, runs, ingestions>>

\* lines 65-71
ApplyFilters ==
    /\ pc = "filter"
    /\ filtered_df' = Table(FilterRows(merged_df.rows, selected_month,
                                       selected_main_cat, selected_subcat))
    /\ pc' = "metrics"
    /\ UNCHANGED <<cleanVars, loadVars, files, exception, dfs, merged_df, widget,
                   selVars, metricVars, runs, ingestions>>

\* lines 75-77
Metrics ==
    /\ pc = "metrics"
    /\ LET sales == ColumnSum(filtered_df.rows, "Total Sales")
           profit == ColumnSum(filtered_df.rows, "Total Profit")
       IN  /\ total_sales' = sales
           /\ total_profit' = profit
           /\ profit_margin' = ProfitMargin(profit, sales)
    /\ pc' = "margins"
    /\ UNCHANGED <<cleanVars, loadVars, files, exception, dfs, merged_df, widget,
                   selVars, filtered_df, margin_col, runs, ingestions>>

\* lines 105-107: the "Profit Margin %" column of filtered_df
RowMargins ==
    /\ pc = "margins"
    /\ margin_col' = [i \in 1..Len(filtered_df.rows) |->
                         ProfitMargin(filtered_df.rows[i].m["Total Profit"],
                                      filtered_df.rows[i].m["Total Sales"])]
    /\ pc' = "done"
    /\ UNCHANGED <<cleanVars, loadVars, files, exception, dfs, merged_df, widget,
                   selVars, filtered_df, total_sales, total_profit, profit_margin,
                   runs, ingestions>>

\* the user picks another option of one selectbox
Pick(w) ==
    {[w EXCEPT !.val = v] : v \in Range(w.opts) \ {w.val}}

\* a rerun that keeps the table of the run before
InteractCached ==
    /\ pc = "done"
    /\ runs < MaxRuns
    /\ \/ \E w \in Pick(widget.month) : widget' = [widget EXCEPT !.month = w]
       \/ \E w \in Pick(widget.main) : widget' = [widget EXCEPT !.main = w]
       \/ \E w \in Pick(widget.sub) : widget' = [widget EXCEPT !.sub = w]
    /\ runs' = runs + 1
    /\ pc' = "sidebar"
    /\ UNCHANGED <<cleanVars, loadVars, files, exception, dfs, merged_df,
                   selVars, filtered_df, metricVars, ingestions>>

\* a selectbox changes: Streamlit runs the script again from line 1, with
\* fresh globals and the session's widget values
Interact ==
    /\ pc = "done"
    /\ runs < MaxRuns
    /\ \/ \E w \in Pick(widget.month) : widget' = [widget EXCEPT !.month = w]
       \/ \E w \in Pick(widget.main) : widget' = [widget EXCEPT !.main = w]
       \/ \E w \in Pick(widget.sub) : widget' = [widget EXCEPT !.sub = w]
    /\ runs' = runs + 1
    /\ pc' = "load"
    /\ exception' = ""
    /\ dfs' = <<>>
    /\ merged_df' = Undefined
    /\ selected_month' = <<>>
    /\ selected_main_cat' = <<>>
    /\ subcats' = <<>>
    /\ selected_subcat' = <<>>
    /\ filtered_df' = Undefined
    /\ total_sales' = Num(0)
    /\ total_profit' = Num(0)
    /\ profit_margin' = ZeroMargin
    /\ margin_col' = <<>>
    /\ UNCHANGED <<cleanVars, loadVars, files, ingestions>>

Next ==
    \/ LoadOk
    \/ LoadRaise
    \/ Merge
    \/ Sidebar
    \/ ApplyFilters
    \/ Metrics
    \/ RowMargins
    \/ Interact

Spec == Init /\ [][Next]_vars

\* ------------------------------------------------------------- properties
\* The properties state what the rows must be from the cells of the file,
\* without the operators of the loader.

\* text holds "total" in some casing
ContainsTotalCI(text) ==
    \E k \in 0..(Len(text) - 5) :
        /\ text[k + 1] \in {"t", "T"}
        /\ text[k + 2] \in {"o", "O"}
        /\ text[k + 3] \in {"t", "T"}
        /\ text[k + 4] \in {"a", "A"}
        /\ text[k + 5] \in {"l", "L"}

\* text without the spaces at its two ends
Trimmed(text) ==
    LET inked == {i \in 1..Len(text) : text[i] # " "}
    IN  IF inked = {} THEN <<>>
        ELSE SubSeq(text, CHOOSE i \in inked : \A j \in inked : i <= j,
                          CHOOSE i \in inked : \A j \in inked : i >= j)

\* the label a category cell stands for: its trimmed text, "nan" if empty
LabelOf(c) == IF c.k = "text" THEN Trimmed(c.s) ELSE <<"n", "a", "n">>

\* the number a measure cell of the inputs stands for
CellNumber(c) ==
    CASE c.k = "empty" -> NaN
      [] c.k = "num" -> Num(c.n)
      [] c.k = "text" /\ c.s = T_Sample -> Num(1234567)
      [] c.k = "text" /\ c.s = T_Small -> Num(1200)
      [] c.k = "text" /\ c.s = T_5 -> Num(5)

\* a measure cell of the inputs that is no number
NotANumber(c) == c.k = "text" /\ c.s = T_Bad

IsTotalInput(r) == r.Category.k = "text" /\ ContainsTotalCI(r.Category.s)
IsDataInput(r) == ~IsTotalInput(r)
DataRows(file) == SelectSeq(file.rows, IsDataInput)

Count(rows, P(_)) == Cardinality({i \in 1..Len(rows) : P(rows[i])})

HasLabels(file) == file.exists /\ {"Category", "Unnamed: 1"} \subseteq file.cols

\* a data row of the file holds a measure cell that is no number
HasBadCell(file) ==
    \E i \in 1..Len(file.rows), col \in Measures \cap file.cols :
        IsDataInput(file.rows[i]) /\ NotANumber(file.rows[i].m[col])

\* C1: no row load_and_clean returns, and so no row of merged_df, has a
\* Category holding "total" in any casing; a row whose Category cell is empty
\* is kept (as "nan"), and an empty Category never makes the loader raise
C1_NoTotalRows ==
    /\ ret.state = "returned" =>
          /\ \A i \in 1..Len(ret.rows) : ~ContainsTotalCI(ret.rows[i].Category)
          /\ LET IsNan(r) == r.Category = <<"n", "a", "n">>
                 IsEmptyCat(r) == r.Category.k = "empty"
             IN  Count(ret.rows, IsNan) = Count(infile.rows, IsEmptyCat)
    /\ (ret.state = "raised" /\ HasLabels(infile)) => HasBadCell(infile)
    /\ merged_df.defined =>
          \A i \in 1..Len(merged_df.rows) :
              ~ContainsTotalCI(merged_df.rows[i].Category)

\* C1 witness: a file with a total row in capitals and a row with an empty
\* Category has been loaded, and rows came back
C1_Witness ==
    /\ ret.state = "returned"
    /\ ret.rows # <<>>
    /\ \E i, j \in 1..Len(infile.rows) :
          /\ infile.rows[i].Category = Txt(T_TOTAL)
          /\ infile.rows[j].Category = Empty

\* C2: every measure of every row load_and_clean returns is a finite,
\* non-null float, also when a measure column of the file has an empty cell
C2_AllMeasuresFinite ==
    ret.state = "returned" =>
        \A i \in 1..Len(ret.rows), col \in Measures : IsFinite(ret.rows[i].m[col])

\* C3: a file without one of the measure columns loads all the same; that
\* measure is 0.0 in every row returned, and every measure the file has is
\* the number of the row's own cell
C3_AbsentMeasureIsZero ==
    (ret.state # "none" /\ HasLabels(infile) /\ ~(Measures \subseteq infile.cols)
       /\ ~HasBadCell(infile)) =>
        /\ ret.state = "returned"
        /\ Len(ret.rows) = Len(DataRows(infile))
        /\ \A i \in 1..Len(ret.rows), col \in Measures :
              ret.rows[i].m[col] =
                  IF col \in infile.cols THEN CellNumber(DataRows(infile)[i].m[col])
                  ELSE Num(0)

\* C3 witness: a file without "Discount" was loaded and a row with the
\* sample text "1,234 567" as its sales came back with Discount 0.0
C3_Witness ==
    /\ ret.state = "returned"
    /\ "Discount" \notin infile.cols
    /\ "Total Sales" \in infile.cols
    /\ \E i \in 1..Len(ret.rows) :
          /\ ret.rows[i].m["Discount"] = Num(0)
          /\ ret.rows[i].m["Total Sales"] = Num(1234567)

\* C4: load_and_clean returns as many rows as the file has, less its total
\* rows; the rows left are the file's data rows in the file's order, each
\* once, and each carries the month given to the call
C4_RowsKeptInOrder ==
    ret.state = "returned" =>
        /\ Len(ret.rows) = Len(infile.rows) - Count(infile.rows, IsTotalInput)
        /\ \A i \in 1..Len(ret.rows) :
              /\ i <= Len(DataRows(infile))
              /\ ret.rows[i].Category = LabelOf(DataRows(infile)[i].Category)
              /\ ret.rows[i].Unnamed1 = LabelOf(DataRows(infile)[i].Unnamed1)
              /\ \A col \in Measures \cap infile.cols :
                    ret.rows[i].m[col] = CellNumber(DataRows(infile)[i].m[col])
              /\ ret.rows[i].Month = month_name

\* C4 witness: of two rows, the first a total row, the second came back
C4_Witness ==
    /\ ret.state = "returned"
    /\ Len(infile.rows) = 2
    /\ IsTotalInput(infile.rows[1])
    /\ Len(ret.rows) = 1
    /\ ret.rows[1].Month = T_SEP

\* what is left of a text without its commas and spaces
IsInk(c) == c \notin Noise
Skeleton(text) == SelectSeq(text, IsInk)

\* C6: the cleaning of a measure cell parses the text without its commas and
\* spaces: "1,234 567" gives 1234567.0, the spaces may go before the commas,
\* and commas and spaces added to or taken from a text leave the value as it was
C6_CleaningIgnoresNoise ==
    parsed.done =>
        /\ parsed = Parsed(ParseFloat(Skeleton(orig)))
        /\ parsed = Parsed(ParseFloat(StrReplace(StrReplace(txt, " "), ",")))
        /\ orig = T_Sample => (parsed.ok /\ parsed.val = Num(1234567))

\* C6 witness: the sample text, written with other commas and spaces, cleaned
C6_Witness ==
    /\ parsed.done
    /\ orig = T_Sample
    /\ txt # orig
    /\ Len(txt) > Len(orig)
    /\ parsed.val = Num(1234567)

\* the Normalized Record a data row of a file stands for
ExpectedRow(file, r, month) ==
    [Category      |-> LabelOf(r.Category),
     Unnamed1      |-> LabelOf(r.Unnamed1),
     m             |-> [col \in Measures |->
                           IF col \in file.cols THEN CellNumber(r.m[col]) ELSE Num(0)],
     Category_Full |-> LabelOf(r.Category) \o <<" ", "/", " ">> \o LabelOf(r.Unnamed1),
     Month         |-> month]

ExpectedRows(file, month) ==
    [i \in 1..Len(DataRows(file)) |-> ExpectedRow(file, DataRows(file)[i], month)]

\* the rows before those of the k-th table
RECURSIVE RowsBefore(_, _)
RowsBefore(tables, k) ==
    IF k <= 1 THEN 0 ELSE RowsBefore(tables, k - 1) + Len(tables[k - 1])

\* C5: merged_df is the tables of the four files one after the other, in the
\* order JUN, JUL, AUG, SEP: it has the rows of each file, all of them, in the
\* file's order, after the rows of the files before it, none left out as a
\* duplicate, each with the month of its file
C5_MergedIsConcatenation ==
    merged_df.defined =>
        /\ Len(dfs) = Len(files_months)
        /\ Len(merged_df.rows) = RowsBefore(dfs, Len(dfs) + 1)
        /\ \A k \in 1..Len(dfs) :
              /\ dfs[k] = ExpectedRows(files[k], files_months[k])
              /\ \A i \in 1..Len(dfs[k]) :
                    /\ merged_df.rows[RowsBefore(dfs, k) + i] = dfs[k][i]
                    /\ merged_df.rows[RowsBefore(dfs, k) + i].Month = files_months[k]

\* C5 witness: a merge of files of three and of two normalized rows, the
\* first with the same row twice
C5_Witness ==
    /\ merged_df.defined
    /\ files[1] = F_B
    /\ files[2] = F_A
    /\ Len(merged_df.rows) >= 5
    /\ merged_df.rows[1] = merged_df.rows[3]
    /\ merged_df.rows[4].Month = T_JUL

\* a file load_and_clean cannot load
FatalFile(file) == ~file.exists \/ ~HasLabels(file) \/ HasBadCell(file)

\* C7: when one of the four files cannot be loaded the run fails as a whole:
\* merged_df is never made, no row of another file is kept, the load does not
\* go past the failing file and the run is not started again; a run that ends
\* has the table of all four files, or has failed and has no table
C7_FailureAbortsRun ==
    LET bad == {k \in 1..Len(files_months) : FatalFile(files[k])}
    IN  /\ bad # {} =>
              /\ pc \in {"load", "failed"}
              /\ ~merged_df.defined
              /\ ~filtered_df.defined
              /\ \A k \in bad : Len(dfs) < k
              /\ runs = 1
        /\ pc = "failed" => (bad # {} /\ exception # "" /\ dfs = <<>>)
        /\ bad = {} => pc # "failed"
        /\ pc = "done" =>
              /\ merged_df.defined
              /\ Len(merged_df.rows) =
                     RowsBefore([k \in 1..Len(files_months) |-> DataRows(files[k])],
                                Len(files_months) + 1)

\* C7 witness: the first two files loaded, the third has a cell that is no
\* number, and the run has failed
C7_Witness ==
    /\ pc = "failed"
    /\ exception = "ValueError"
    /\ files[1] = F_A
    /\ files[2] = F_B
    /\ files[3] = F_BadCell
    /\ ~merged_df.defined

\* the margin of profit on sales as the claim has it
MarginIsRight(margin, profit, sales) ==
    /\ (~sales.nan /\ sales.v = 0) => margin = ZeroMargin
    /\ (~sales.nan /\ sales.v > 0 /\ ~profit.nan) =>
          /\ ~margin.nan
          /\ margin.den # 0
          /\ margin.num * sales.v = profit.v * 100 * margin.den
    /\ ~margin.nan => margin.den # 0

\* C8: the profit margin, of the selection and of each row, is 0 when the
\* sales are 0, whatever the profit (never the inf or NaN of a division by
\* zero), and profit / sales * 100 when the sales are above 0
C8_MarginGuardsZeroSales ==
    /\ pc \in {"margins", "done"} =>
          MarginIsRight(profit_margin, total_profit, total_sales)
    /\ pc = "done" =>
          /\ Len(margin_col) = Len(filtered_df.rows)
          /\ \A i \in 1..Len(margin_col) :
                MarginIsRight(margin_col[i], filtered_df.rows[i].m["Total Profit"],
                              filtered_df.rows[i].m["Total Sales"])

\* C8 witness: a selection of one row with sales 0 and profit 50, its two
\* margins 0
C8_Witness ==
    /\ pc = "done"
    /\ total_sales = Num(0)
    /\ total_profit = Num(50)
    /\ profit_margin = ZeroMargin
    /\ Len(margin_col) = 1
    /\ margin_col[1] = ZeroMargin

\* C9 as claimed: the loader/merger runs once in the life of the process
C9_IngestedOnce == ingestions <= 1

RECURSIVE ExpectedTable(_, _)
ExpectedTable(fs, k) ==
    IF k = 0 THEN <<>>
    ELSE ExpectedTable(fs, k - 1) \o ExpectedRows(fs[k], files_months[k])

\* C9 as amended: every run of the script runs the loader/merger once, before
\* its filters, so that the n-th run is the n-th ingestion; the filters of a
\* run work on the table of that run, and with the files as they were every
\* run builds the same table
C9_IngestedOncePerRun ==
    /\ ingestions = IF merged_df.defined THEN runs ELSE runs - 1
    /\ merged_df.defined =>
          merged_df.rows = ExpectedTable(files, Len(files_months))
    /\ pc \in {"sidebar", "filter", "metrics", "margins", "done"} => merged_df.defined

\* C9 witness: the third run, after two selections, has ingested a third time
C9_Witness ==
    /\ pc = "done"
    /\ runs = 3
    /\ ingestions = 3
    /\ selected_main_cat # T_All
    /\ selected_subcat # T_All

\* C10: filtered_df is the rows of merged_df, in order, whose Month, Category
\* and subcategory are the ones selected, "All" selecting every row; with a
\* main category selected, the subcategories offered are "All" and the
\* subcategories of the rows of that category
C10_FilterIsConjunction ==
    pc \in {"metrics", "margins", "done"} =>
        LET Matches(r) ==
                /\ selected_month = T_All \/ r.Month = selected_month
                /\ selected_main_cat = T_All \/ r.Category = selected_main_cat
                /\ selected_subcat = T_All \/ r.Unnamed1 = selected_subcat
            rows == merged_df.rows
        IN  /\ filtered_df.defined
            /\ filtered_df.rows = SelectSeq(rows, Matches)
            /\ selected_subcat \in Range(subcats)
            /\ selected_main_cat # T_All =>
                  Range(subcats) =
                      {T_All} \cup {rows[i].Unnamed1 :
                                      i \in {j \in 1..Len(rows) :
                                               rows[j].Category = selected_main_cat}}

\* C10 witness: a month, a main category and a subcategory are selected and
\* some rows, not all, are left
C10_Witness ==
    /\ pc = "done"
    /\ selected_month # T_All
    /\ selected_main_cat # T_All
    /\ selected_subcat # T_All
    /\ filtered_df.rows # <<>>
    /\ Len(filtered_df.rows) < Len(merged_df.rows)
    /\ Len(subcats) < Len(SubcatOptions(merged_df.rows, T_All))

====
